---- MODULE Spec2Model ----
(***************************************************************************)
(* A model of the IoC container of src/src/main.js (uioc).                 *)
(*                                                                         *)
(* The container is single threaded: a handler (an API call, or the        *)
(* callback the module loader invokes when a load completes) runs to its   *)
(* end before the next one starts.  Every action below is one such         *)
(* handler, with all the calls it makes.  The module loader is the only    *)
(* asynchronous collaborator: an invocation is queued in `calls` and its   *)
(* callback runs later, in any order (LoaderComplete).                     *)
(*                                                                         *)
(* main.js requires three collaborators whose code is not in src/:         *)
(* ./Container, ./DependencyParser and ./util.  The few operations of      *)
(* them that main.js calls are modelled from spec.md and are marked        *)
(* "spec.md" in the comments.                                              *)
(***************************************************************************)
EXTENDS Naturals, Integers, Sequences, FiniteSets, TLC

VARIABLES
    components,   \* this.components: id -> component object (index in comps)
    comps,        \* heap of component objects (createComponent's records)
    argsHeap,     \* heap of args arrays (shared by reference, mutated in place)
    propsHeap,    \* heap of properties objects (ordered key/value pairs)
    singletons,   \* the Container's scope store: id -> cached instance
    reqs,         \* path -> the getComponent call of that path (its closures)
    calls,        \* <<path, index>> -> the loader invocation made there
    instOf,       \* instance n was constructed by component object instOf[n]
    invoked,      \* invoked[c]: how often component object c's creator was called
    assigned,     \* <<object, key>> -> value assigned by instance[key] = value
    setterArgs,   \* <<object, key>> -> value last passed to instance.setKey(value)
    exc,          \* the exception the last handler threw ("none" if it returned)
    nAdds,        \* number of addComponent calls made by the user
    nUser,        \* number of getComponent calls made by the user
    disposed,     \* number of dispose() calls: from the first on, this.components
                  \* and this.parser are null
    disposeCalls, \* instance -> how often its dispose() method was invoked
    lastCall      \* the handler that ran last, with its input

vars == <<components, comps, argsHeap, propsHeap, singletons, reqs, calls,
          instOf, invoked, assigned, setterArgs, exc, nAdds, nUser, disposed,
          disposeCalls, lastCall>>

(***************************************************************************)
(* Bounds of the model.                                                    *)
(***************************************************************************)
MaxAdds == 2      \* addComponent calls by the user
MaxUser == 2      \* getComponent calls by the user
MaxInFlight == 3  \* ids the user has requested and not yet received
MaxDisposes == 2  \* dispose calls by the user
MaxLiveAdds == 1  \* addComponent calls in the progress specification
MaxRegs == 3      \* addComponent calls in the registration-only specification

(***************************************************************************)
(* Values.  k is the JavaScript kind of the value.                         *)
(***************************************************************************)
Val(k, s, m, w, n) == [k |-> k, s |-> s, m |-> m, w |-> w, n |-> n]
Undef == Val("undef", "", "", <<>>, <<>>)
NullV == Val("null", "", "", <<>>, <<>>)
FnV(name) == Val("fn", name, "", <<>>, <<>>)
StrV(s) == Val("str", s, "", <<>>, <<>>)
LitV(s) == Val("lit", s, "", <<>>, <<>>)
ModV(m) == Val("module", "", m, <<>>, <<>>)
\* the object constructed at n (the request path and index that made it)
Inst(n) == Val("inst", "", "", <<>>, n)

\* typeof v === 'function'
IsFunction(v) == v.k = "fn"
\* module[name]: the member function `name` of a loaded module
Member(module, name) == Val("fn", name, module.m, <<>>, <<>>)
\* a closure around the function v (moduleFactory, or the `new` wrapper)
Wrap(v, tag) == Val("fn", v.s, v.m, Append(v.w, tag), <<>>)

\* a nullable field of a component: null, or an array of ids
Null == [null |-> TRUE, v |-> <<>>]
Some(s) == [null |-> FALSE, v |-> s]

(***************************************************************************)
(* Dependency configs (DependencyConfig, main.js 58-66): a literal, a      *)
(* {$ref: id}, or a {$import: id, ...overrides}.  Ids are strings, modelled *)
(* as sequences of tokens so that they can be concatenated.                *)
(***************************************************************************)
Lit(s) == [t |-> "lit", v |-> LitV(s), id |-> <<>>, over |-> <<>>]
Ref(id) == [t |-> "ref", v |-> Undef, id |-> id, over |-> <<>>]
Imp(id, over) == [t |-> "imp", v |-> Undef, id |-> id, over |-> over]

\* u.hasImport / u.hasReference (util is not in src/; spec.md 4.1)
hasImport(d) == d.t = "imp"
hasReference(d) == d.t = "ref"

ANONY_PREFIX == "^uioc-"

\* String(id) of a non-string id: the key `this.components[id]` reads when id
\* is the map passed to addComponent (main.js 111)
ObjectKey == <<"[object Object]">>

(***************************************************************************)
(* Small helpers.                                                          *)
(***************************************************************************)
Put(f, k, v) == (k :> v) @@ f
RECURSIVE Fill(_, _)
\* an array of n elements v
Fill(n, v) == IF n = 0 THEN <<>> ELSE Append(Fill(n - 1, v), v)
Get(f, k, d) == IF k \in DOMAIN f THEN f[k] ELSE d
Range(s) == {s[i] : i \in DOMAIN s}
\* id.indexOf(token) !== -1
Contains(id, token) == \E i \in DOMAIN id : id[i] = token
\* u.indexOf(arr, x): first index, 0 when absent (JavaScript's -1)
IndexOf(arr, x) ==
    IF \E i \in DOMAIN arr : arr[i] = x
    THEN CHOOSE i \in DOMAIN arr : arr[i] = x /\ \A j \in 1..(i - 1) : arr[j] # x
    ELSE 0

\* the state the operators below transform
Cur == [components |-> components, comps |-> comps, argsHeap |-> argsHeap,
        propsHeap |-> propsHeap, singletons |-> singletons, reqs |-> reqs,
        calls |-> calls, instOf |-> instOf, invoked |-> invoked,
        assigned |-> assigned, setterArgs |-> setterArgs, exc |-> "none",
        disposed |-> disposed, disposeCalls |-> disposeCalls]

Apply(st) ==
    /\ components' = st.components
    /\ comps' = st.comps
    /\ argsHeap' = st.argsHeap
    /\ propsHeap' = st.propsHeap
    /\ singletons' = st.singletons
    /\ reqs' = st.reqs
    /\ calls' = st.calls
    /\ instOf' = st.instOf
    /\ invoked' = st.invoked
    /\ assigned' = st.assigned
    /\ setterArgs' = st.setterArgs
    /\ exc' = st.exc
    /\ disposed' = st.disposed
    /\ disposeCalls' = st.disposeCalls

(***************************************************************************)
(* DependencyParser (not in src/; spec.md 4.1).                            *)
(***************************************************************************)
\* getDepsFromArgs: the ids of the $ref entries, in order
getDepsFromArgs(args) ==
    LET refs == SelectSeq(args, hasReference)
    IN [i \in 1..Len(refs) |-> refs[i].id]

\* getDepsFromProperties: the ids of the $ref values, in key order
getDepsFromProperties(props) ==
    LET refs == SelectSeq(props, LAMBDA p : hasReference(p.v))
    IN [i \in 1..Len(refs) |-> refs[i].v.id]

(***************************************************************************)
(* Registration: main.js 102-126, 189-276.                                 *)
(***************************************************************************)
\* createCreator (212-232); module is Undef when called from createComponent
createCreator(component, module) ==
    LET c0 == IF component.creator.k = "null" THEN module ELSE component.creator
        method == Member(module, c0.s)
        c1 == IF c0.k = "str"
              THEN IF ~component.isFactory \/ component.scope = "static"
                   THEN method
                   ELSE Wrap(method, "moduleFactory")
              ELSE c0
        c2 == IF ~component.isFactory /\ component.scope # "static"
              THEN Wrap(c1, "new")
              ELSE c1
    IN [component EXCEPT !.creator = c2]

\* createComponent (189-210): config holds its args and properties by
\* reference; an absent one is a fresh empty array / object
createComponent(st, id, config) ==
    LET hasArgs == "args" \in DOMAIN config
        hasProps == "properties" \in DOMAIN config
        st1 == IF hasArgs THEN st
               ELSE [st EXCEPT !.argsHeap = Append(@, <<>>)]
        st2 == IF hasProps THEN st1
               ELSE [st1 EXCEPT !.propsHeap = Append(@, <<>>)]
        component ==
            [id |-> id,
             args |-> IF hasArgs THEN config.args ELSE Len(st1.argsHeap),
             properties |-> IF hasProps THEN config.properties
                            ELSE Len(st2.propsHeap),
             anonyDeps |-> Null,
             argDeps |-> Null,
             propDeps |-> Null,
             setterDeps |-> Null,
             scope |-> Get(config, "scope", "transient"),
             creator |-> Get(config, "creator", NullV),
             module |-> Get(config, "module", ""),
             isFactory |-> Get(config, "isFactory", FALSE),
             auto |-> Get(config, "auto", FALSE)]
        made == IF IsFunction(component.creator)
                THEN createCreator(component, Undef)
                ELSE component
    IN [st2 EXCEPT !.comps = Append(@, made), !.invoked = Append(@, 0)]

\* a config object literal whose args array and properties object are
\* allocated on the heaps
AllocConfig(st, config) ==
    LET hasArgs == "args" \in DOMAIN config
        hasProps == "properties" \in DOMAIN config
        st1 == IF hasArgs THEN [st EXCEPT !.argsHeap = Append(@, config.args)]
               ELSE st
        st2 == IF hasProps
               THEN [st1 EXCEPT !.propsHeap = Append(@, config.properties)]
               ELSE st1
        c1 == IF hasArgs THEN [config EXCEPT !.args = Len(st1.argsHeap)]
              ELSE config
        c2 == IF hasProps THEN [c1 EXCEPT !.properties = Len(st2.propsHeap)]
              ELSE c1
    IN [st |-> st2, config |-> c2]

\* u.merge(refConfig, config) (util is not in src/; spec.md 4.2 step 3): a
\* shallow copy of the imported component's record with the own keys of the
\* override on top; only the keys createComponent reads are kept
ConfigKeys == {"creator", "module", "scope", "isFactory", "auto", "args",
               "properties"}
merge(refConfig, config) ==
    [f \in ConfigKeys |-> IF f \in DOMAIN config THEN config[f] ELSE refConfig[f]]

RECURSIVE addComponent(_, _)
RECURSIVE RegisterKeys(_, _, _, _)
RECURSIVE transferArgs(_, _, _)
RECURSIVE transferProps(_, _, _)
RECURSIVE ParseIds(_, _, _)

\* createAnonymousComponent with a fault: a missing import is not reported,
\* the entry is left without a component
createAnonymousComponent_noThrow(st, c, where, pos, idPrefix) ==
    LET component == st.comps[c]
        config == IF where = "args" THEN st.argsHeap[component.args][pos]
                  ELSE st.propsHeap[component.properties][pos].v
        importId == config.id
        id0 == component.id \o <<"-", idPrefix>> \o importId
        id == (IF Contains(id0, ANONY_PREFIX) THEN <<>> ELSE <<ANONY_PREFIX>>)
              \o id0
        plain == [t |-> "lit", v |-> LitV("object"), id |-> id,
                  over |-> config.over]
        st1 == IF where = "args"
               THEN [st EXCEPT !.argsHeap[component.args][pos] = plain]
               ELSE [st EXCEPT !.propsHeap[component.properties][pos].v = plain]
        al == AllocConfig(st1, config.over)
    IN IF importId \notin DOMAIN st.components
       THEN [st |-> st1, id |-> id]
       ELSE [st |-> addComponent(al.st,
                       <<[id |-> id,
                          config |-> merge(st.comps[st.components[importId]],
                                           al.config)]>>),
             id |-> id]

\* array (where = "args") or of the properties object (where = "props")
createAnonymousComponent(st, c, where, pos, idPrefix) ==
    LET component == st.comps[c]
        config == IF where = "args" THEN st.argsHeap[component.args][pos]
                  ELSE st.propsHeap[component.properties][pos].v
        importId == config.id
        id0 == component.id \o <<"-", idPrefix>> \o importId
        id == (IF Contains(id0, ANONY_PREFIX) THEN <<>> ELSE <<ANONY_PREFIX>>)
              \o id0
        \* config.id = id; delete config.$import: the entry is now a plain
        \* object, visible through every alias of the array
        plain == [t |-> "lit", v |-> LitV("object"), id |-> id,
                  over |-> config.over]
        st1 == IF where = "args"
               THEN [st EXCEPT !.argsHeap[component.args][pos] = plain]
               ELSE [st EXCEPT !.propsHeap[component.properties][pos].v = plain]
        al == AllocConfig(st1, config.over)
    IN IF importId \notin DOMAIN st.components
       THEN [st |-> [st EXCEPT !.exc = "import"], id |-> <<>>]
       ELSE [st |-> addComponent(al.st,
                       <<[id |-> id,
                          config |-> merge(st.comps[st.components[importId]],
                                           al.config)]>>),
             id |-> id]

\* transferAnonymousComponents (255-276), the args loop from index i down
transferArgs(st, c, i) ==
    IF i = 0 \/ st.exc # "none" THEN st
    ELSE LET component == st.comps[c]
             args == st.argsHeap[component.args]
         IN IF hasImport(args[i])
            THEN LET r == createAnonymousComponent(st, c, "args", i, "$arg.")
                     s1 == r.st
                     s2 == [s1 EXCEPT
                              !.argsHeap[component.args][i] = Ref(r.id),
                              !.comps[c].anonyDeps = Some(Append(@.v, r.id))]
                 IN IF s1.exc # "none" THEN s1 ELSE transferArgs(s2, c, i - 1)
            ELSE transferArgs(st, c, i - 1)

\* transferAnonymousComponents, the properties loop from key number k up
transferProps(st, c, k) ==
    IF st.exc # "none" THEN st
    ELSE LET component == st.comps[c]
             props == st.propsHeap[component.properties]
         IN IF k > Len(props) THEN st
            ELSE IF hasImport(props[k].v)
            THEN LET r == createAnonymousComponent(st, c, "props", k, "$prop.")
                     s1 == r.st
                     s2 == [s1 EXCEPT
                              !.propsHeap[component.properties][k].v = Ref(r.id),
                              !.comps[c].anonyDeps = Some(Append(@.v, r.id))]
                 IN IF s1.exc # "none" THEN s1 ELSE transferProps(s2, c, k + 1)
            ELSE transferProps(st, c, k + 1)

transferAnonymousComponents(st, c) ==
    LET st0 == [st EXCEPT !.comps[c].anonyDeps = Some(<<>>)]
        n == Len(st0.argsHeap[st0.comps[c].args])
    IN transferProps(transferArgs(st0, c, n), c, 1)

\* addComponent, the first loop (110-117) from entry k on; ids collects the
\* keys that were registered
RegisterKeys(st, map, k, ids) ==
    IF k > Len(map) THEN [st |-> st, ids |-> ids]
    ELSE IF st.disposed > 0
    THEN [st |-> [st EXCEPT !.exc = "TypeError"], ids |-> ids]
    ELSE IF ObjectKey \in DOMAIN st.components
    THEN RegisterKeys(st, map, k + 1, ids)
    ELSE LET s1 == createComponent(st, map[k].id, map[k].config)
             s2 == [s1 EXCEPT !.components = Put(@, map[k].id, Len(s1.comps))]
         IN RegisterKeys(s2, map, k + 1, Append(ids, map[k].id))

\* addComponent, the second loop (120-125) from index i down
ParseIds(st, ids, i) ==
    IF i = 0 \/ st.exc # "none" THEN st
    ELSE LET c == st.components[ids[i]]
             s1 == IF st.comps[c].anonyDeps.null
                   THEN transferAnonymousComponents(st, c)
                   ELSE st
             component == s1.comps[c]
             s2 == [s1 EXCEPT
                      !.comps[c].argDeps =
                          Some(getDepsFromArgs(s1.argsHeap[component.args])),
                      !.comps[c].propDeps =
                          Some(getDepsFromProperties(
                                   s1.propsHeap[component.properties]))]
         IN IF s1.exc # "none" THEN s1 ELSE ParseIds(s2, ids, i - 1)

\* IoC.prototype.addComponent (102-126) for a map, given as the sequence of
\* its [id, config] entries in key order; addComponent(id, config) calls
\* it with a map of one entry (104-108)
addComponent(st, map) ==
    LET reg == RegisterKeys(st, map, 1, <<>>)
    IN ParseIds(reg.st, reg.ids, Len(reg.ids))

(***************************************************************************)
(* Requests.  A request is one call of getComponent(ids, cb): it holds     *)
(* the closure of createInstances (instances, count) and, per index, the   *)
(* `complete` flags of injectDeps.  A request is named by its path: <<u>>  *)
(* for the user's u-th call, and path \o <<index, kind>> for the call made *)
(* for `index` of the request `path` to resolve its args ("args"), its     *)
(* property dependencies ("prop") or its setter dependencies ("setter").   *)
(* kinds, dones, setProps, depReqs and prior record what happened; the     *)
(* program does not read them.                                             *)
(***************************************************************************)
Cont(kind, req, index, comp, inst) ==
    [kind |-> kind, req |-> req, index |-> index, comp |-> comp, inst |-> inst]
UserCb == Cont("user", <<>>, 0, 0, Undef)

NewReq(ids, cb) ==
    [ids |-> ids, cb |-> cb,
     instances |-> <<>>, count |-> 0, started |-> FALSE,
     fired |-> 0, args |-> <<>>, prior |-> {},
     gates |-> Fill(Len(ids), [prop |-> FALSE, setter |-> FALSE]),
     kinds |-> Fill(Len(ids), "none"),
     dones |-> Fill(Len(ids), 0),
     setProps |-> Fill(Len(ids), 0),
     depReqs |-> Fill(Len(ids), 0)]

\* `deps instanceof Array ? deps : [deps]` (144) for a nullable id list
NullId == <<"null">>
IdsOf(deps) == IF deps.null THEN <<NullId>> ELSE deps.v

(***************************************************************************)
(* The setter methods of the instances a constructor makes, in the order   *)
(* getDepsFromSetters finds them.  Instances of G expose setP and setQ;    *)
(* the other values expose no setter.                                      *)
(***************************************************************************)
ClassSetters(name) == IF name = "G" THEN <<"p", "q">> ELSE <<>>
SettersOf(st, v) ==
    IF v.k = "inst" THEN ClassSetters(st.comps[st.instOf[v.n]].creator.s)
    ELSE <<>>

\* getDepsFromSetters (DependencyParser, not in src/; spec.md 4.4 step 5 and
\* 4.4a): the setter-shaped methods of the instance whose property is not
\* declared in properties, as ids
getDepsFromSetters(st, instance, props) ==
    LET declared == {props[i].k : i \in DOMAIN props}
        found == SelectSeq(SettersOf(st, instance), LAMBDA k : k \notin declared)
    IN [i \in 1..Len(found) |-> <<found[i]>>]

\* a module map: the module names in insertion order, and name -> components
NoModules == [names |-> <<>>, map |-> <<>>]
AddModule(result, name, c) ==
    IF name \in DOMAIN result.map
    THEN [names |-> result.names,
          map |-> Put(result.map, name, Append(result.map[name], c))]
    ELSE [names |-> Append(result.names, name),
          map |-> Put(result.map, name, <<c>>)]

\* getDependentModules (DependencyParser, not in src/; spec.md 4.1): the
\* component and each dependency whose creator is not yet a function is
\* appended to the pending list of its module
NeedsLoad(st, c) == ~IsFunction(st.comps[c].creator) /\ st.comps[c].module # ""
RECURSIVE DependentOf(_, _, _, _)
DependentOf(st, result, deps, i) ==
    IF i > Len(deps) THEN result
    ELSE LET c == Get(st.components, deps[i], 0)
         IN DependentOf(st,
                IF c # 0 /\ NeedsLoad(st, c)
                THEN AddModule(result, st.comps[c].module, c) ELSE result,
                deps, i + 1)
getDependentModules(st, c, result, deps) ==
    DependentOf(st,
        IF NeedsLoad(st, c) THEN AddModule(result, st.comps[c].module, c)
        ELSE result,
        IF deps.null THEN <<>> ELSE deps.v, 1)

\* loadComponentModules with a fault: the name list holds a module name once
\* per pending component of that module
RECURSIVE NamePerComponent(_, _)
NamePerComponent(moduleMaps, i) ==
    IF i = 0 THEN <<>>
    ELSE NamePerComponent(moduleMaps, i - 1)
         \o Fill(Len(moduleMaps.map[moduleMaps.names[i]]), moduleMaps.names[i])

loadComponentModules_perComponent(st, at, moduleMaps, cb) ==
    [st EXCEPT !.calls = Put(@, at,
        [modules |-> NamePerComponent(moduleMaps, Len(moduleMaps.names)),
         map |-> moduleMaps.map,
         cont |-> cb, done |-> FALSE])]

\* loadComponentModules (278-295), up to the call of the loader: the
\* invocation is recorded with its continuation; `at` names the place of
\* the call (<<path, 0>> from getComponent, <<path, index>> from task)
loadComponentModules(st, at, moduleMaps, cb) ==
    [st EXCEPT !.calls = Put(@, at, [modules |-> moduleMaps.names,
                                     map |-> moduleMaps.map,
                                     cont |-> cb, done |-> FALSE])]

\* IoC.prototype.getComponent (143-162), the loop from index i on
RECURSIVE NeedOfIds(_, _, _, _)
NeedOfIds(st, ids, i, need) ==
    IF i > Len(ids) THEN need
    ELSE LET c == Get(st.components, ids[i], 0)
         IN NeedOfIds(st, ids, i + 1,
                IF c = 0 THEN need
                ELSE getDependentModules(st, c, need, st.comps[c].argDeps))

\* IoC.prototype.getComponent (143-162); path names the new request
getComponent(st, path, ids, cb) ==
    LET st1 == [st EXCEPT !.reqs = Put(@, path, NewReq(ids, cb))]
    IN IF st.exc # "none" THEN st
       ELSE IF st.disposed > 0 /\ Len(ids) > 0
       THEN [st EXCEPT !.exc = "TypeError"]
       ELSE loadComponentModules(st1, <<path, 0>>,
                                 NeedOfIds(st, ids, 1, NoModules),
                                 Cont("createInstances", path, 0, 0, Undef))

\* setProperty with a fault: the field is assigned whether or not the
\* instance has a setter
setProperty_assignOnly(st, instance, key, value) ==
    [st EXCEPT !.assigned = Put(@, <<instance, key>>, value)]

\* setProperty (380-383)
setProperty(st, instance, key, value) ==
    IF \E i \in DOMAIN SettersOf(st, instance) : SettersOf(st, instance)[i] = key
    THEN [st EXCEPT !.setterArgs = Put(@, <<instance, key>>, value)]
    ELSE [st EXCEPT !.assigned = Put(@, <<instance, key>>, value)]

RECURSIVE FireCb(_, _)
RECURSIVE done(_, _, _)
RECURSIVE injectDeps(_, _)

\* task with a fault: the injection starts without the load of the modules
\* of the property and setter dependencies
task_noLoad(st, r, index, c, instance) ==
    LET st1 == [st EXCEPT !.reqs[r].instances[index] = instance]
    IN IF c # 0
       THEN LET component == st1.comps[c]
                lazy == component.setterDeps.null /\ component.auto
                setterDeps == Some(getDepsFromSetters(st1, instance,
                                  st1.propsHeap[component.properties]))
                st2 == IF lazy THEN [st1 EXCEPT !.comps[c].setterDeps = setterDeps]
                       ELSE st1
            IN injectDeps(st2, Cont("injectDeps", r, index, c, instance))
       ELSE done(st1, r, index)

\* task with a fault: the instance is stored from the other end of the array
task_mirrored(st, r, index, c, instance) ==
    LET slot == Len(st.reqs[r].ids) + 1 - index
        st1 == [st EXCEPT !.reqs[r].instances[slot] = instance]
    IN IF c # 0
       THEN LET component == st1.comps[c]
                need1 == getDependentModules(st1, c, NoModules, component.propDeps)
                lazy == component.setterDeps.null /\ component.auto
                setterDeps == Some(getDepsFromSetters(st1, instance,
                                  st1.propsHeap[component.properties]))
                st2 == IF lazy THEN [st1 EXCEPT !.comps[c].setterDeps = setterDeps]
                       ELSE st1
                need2 == IF lazy
                         THEN getDependentModules(st2, c, need1, setterDeps)
                         ELSE need1
            IN loadComponentModules(st2, <<r, index>>, need2,
                                    Cont("injectDeps", r, index, c, instance))
       ELSE done(st1, r, index)

\* task with a fault: an undefined component does not report completion
task_noDone(st, r, index, c, instance) ==
    LET st1 == [st EXCEPT !.reqs[r].instances[index] = instance]
    IN IF c # 0
       THEN LET component == st1.comps[c]
                need1 == getDependentModules(st1, c, NoModules, component.propDeps)
                lazy == component.setterDeps.null /\ component.auto
                setterDeps == Some(getDepsFromSetters(st1, instance,
                                  st1.propsHeap[component.properties]))
                st2 == IF lazy THEN [st1 EXCEPT !.comps[c].setterDeps = setterDeps]
                       ELSE st1
                need2 == IF lazy
                         THEN getDependentModules(st2, c, need1, setterDeps)
                         ELSE need1
            IN loadComponentModules(st2, <<r, index>>, need2,
                                    Cont("injectDeps", r, index, c, instance))
       ELSE st1

\* the closure task(index, component) of createInstances (313-333) applied
\* to the instance the Container hands over; c = 0 is `undefined`
task(st, r, index, c, instance) ==
    LET st1 == [st EXCEPT !.reqs[r].instances[index] = instance]
    IN IF c # 0
       THEN LET component == st1.comps[c]
                need1 == getDependentModules(st1, c, NoModules, component.propDeps)
                lazy == component.setterDeps.null /\ component.auto
                setterDeps == Some(getDepsFromSetters(st1, instance,
                                  st1.propsHeap[component.properties]))
                st2 == IF lazy THEN [st1 EXCEPT !.comps[c].setterDeps = setterDeps]
                       ELSE st1
                need2 == IF lazy
                         THEN getDependentModules(st2, c, need1, setterDeps)
                         ELSE need1
            IN loadComponentModules(st2, <<r, index>>, need2,
                                    Cont("injectDeps", r, index, c, instance))
       ELSE done(st1, r, index)

\* done with a fault: the count is compared before it is decremented
done_testsBefore(st, r, index) ==
    LET st1 == [st EXCEPT !.reqs[r].count = @ - 1,
                          !.reqs[r].dones[index] = @ + 1]
    IN IF st.reqs[r].count = 0 THEN FireCb(st1, r) ELSE st1

\* the closure done of createInstances (308-310), called for `index`
done(st, r, index) ==
    LET st1 == [st EXCEPT !.reqs[r].count = @ - 1,
                          !.reqs[r].dones[index] = @ + 1]
    IN IF st1.reqs[r].count = 0 THEN FireCb(st1, r) ELSE st1

\* injected with a fault: the property flag alone lets the continuation run
injected_propOnly(st, r, index, type) ==
    LET st1 == IF type = "prop"
               THEN [st EXCEPT !.reqs[r].gates[index].prop = TRUE]
               ELSE [st EXCEPT !.reqs[r].gates[index].setter = TRUE]
        complete == st1.reqs[r].gates[index]
    IN IF complete.prop THEN done(st1, r, index) ELSE st1

\* injected with a fault: one of the two flags is enough
injected_eitherFlag(st, r, index, type) ==
    LET st1 == IF type = "prop"
               THEN [st EXCEPT !.reqs[r].gates[index].prop = TRUE]
               ELSE [st EXCEPT !.reqs[r].gates[index].setter = TRUE]
        complete == st1.reqs[r].gates[index]
    IN IF complete.prop \/ complete.setter THEN done(st1, r, index) ELSE st1

\* the closure injected of injectDeps (346-349)
injected(st, r, index, type) ==
    LET st1 == IF type = "prop"
               THEN [st EXCEPT !.reqs[r].gates[index].prop = TRUE]
               ELSE [st EXCEPT !.reqs[r].gates[index].setter = TRUE]
        complete == st1.reqs[r].gates[index]
    IN IF complete.prop /\ complete.setter THEN done(st1, r, index) ELSE st1

\* the callback of injectPropDependencies (368-377), the loop from key k on
RECURSIVE SetProps(_, _, _, _, _)
SetProps(st, cb, deps, arguments, k) ==
    LET props == st.propsHeap[st.comps[cb.comp].properties]
    IN IF k > Len(props) THEN st
       ELSE LET at == IF deps.null THEN 0 ELSE IndexOf(deps.v, props[k].v.id)
                value == IF hasReference(props[k].v)
                         THEN (IF at = 0 THEN Undef ELSE arguments[at])
                         ELSE props[k].v.v
                st1 == setProperty(st, cb.inst, props[k].k, value)
                st2 == [st1 EXCEPT !.reqs[cb.req].setProps[cb.index] = @ + 1]
            IN SetProps(st2, cb, deps, arguments, k + 1)

\* the callback of injectSetterDependencies (356-362), the loop from i down
RECURSIVE SetSetters(_, _, _, _, _)
SetSetters(st, cb, deps, arguments, i) ==
    IF i = 0 THEN st
    ELSE LET st1 == setProperty(st, cb.inst, deps[i][1], arguments[i])
             st2 == [st1 EXCEPT !.reqs[cb.req].setProps[cb.index] = @ + 1]
         IN SetSetters(st2, cb, deps, arguments, i - 1)

\* Container.createInstance, the continuation of its argument request
\* (Container is not in src/; spec.md 4.5): call the creator, cache a
\* singleton, hand the instance to task.  Calling a creator that is not a
\* function throws a TypeError.
Construct(st, cb) ==
    LET component == st.comps[cb.comp]
        n == Append(cb.req, cb.index)
        st1 == [st EXCEPT !.instOf = Put(@, n, cb.comp),
                          !.invoked[cb.comp] = @ + 1]
        st2 == IF component.scope = "singleton"
               THEN [st1 EXCEPT !.singletons = Put(@, component.id, Inst(n))]
               ELSE st1
    IN IF ~IsFunction(component.creator)
       THEN [st EXCEPT !.exc = "creator"]
       ELSE task(st2, cb.req, cb.index, cb.comp, Inst(n))

\* cb.apply(null, instances) (300, 309) for the callback of request r
FireCb(st, r) ==
    LET cb == st.reqs[r].cb
        arguments == st.reqs[r].instances
        st1 == [st EXCEPT !.reqs[r].fired = @ + 1, !.reqs[r].args = arguments]
    IN CASE cb.kind = "user" -> st1
         [] cb.kind = "args" -> Construct(st1, cb)
         [] cb.kind = "prop" ->
              injected(SetProps(st1, cb, st1.comps[cb.comp].propDeps,
                                arguments, 1),
                       cb.req, cb.index, "prop")
         [] cb.kind = "setter" ->
              LET deps == IF st1.comps[cb.comp].setterDeps.null THEN <<>>
                          ELSE st1.comps[cb.comp].setterDeps.v
              IN injected(SetSetters(st1, cb, deps, arguments, Len(deps)),
                          cb.req, cb.index, "setter")

\* Container.createInstance(component, task(index, component)) (not in
\* src/; spec.md 4.5 and 4.4 step 2): an unregistered id yields undefined, a
\* static component its creator, a cached singleton its instance; otherwise
\* the arg dependencies are requested and Construct continues
createInstance(st, r, index, c) ==
    LET component == st.comps[c]
        mark(kind) == [st EXCEPT !.reqs[r].kinds[index] = kind]
    IN IF c = 0 THEN task(mark("undefined"), r, index, 0, Undef)
       ELSE IF component.scope = "static"
       THEN task(mark("static"), r, index, c, component.creator)
       ELSE IF component.scope = "singleton"
               /\ component.id \in DOMAIN st.singletons
       THEN task(mark("cached"), r, index, c, st.singletons[component.id])
       ELSE getComponent([mark("construct") EXCEPT !.reqs[r].depReqs[index] = @ + 1],
                         r \o <<index, "args">>,
                         IdsOf(component.argDeps), Cont("args", r, index, c, Undef))

\* the loop with a fault: the slot of an id is the first position of that id
RECURSIVE CreateLoop_firstSlot(_, _, _)
CreateLoop_firstSlot(st, r, i) ==
    IF i = 0 \/ st.exc # "none" THEN st
    ELSE CreateLoop_firstSlot(
             createInstance(st, r, IndexOf(st.reqs[r].ids, st.reqs[r].ids[i]),
                            Get(st.components, st.reqs[r].ids[i], 0)),
             r, i - 1)

\* createInstances (297-339): the loop from index i down
RECURSIVE CreateLoop(_, _, _)
CreateLoop(st, r, i) ==
    IF i = 0 \/ st.exc # "none" THEN st
    ELSE IF st.disposed > 0 THEN [st EXCEPT !.exc = "TypeError"]
    ELSE CreateLoop(createInstance(st, r, i,
                                   Get(st.components, st.reqs[r].ids[i], 0)),
                    r, i - 1)

\* createInstances with a fault: the empty id list is not special-cased
createInstances_noEmptyCase(st, r) ==
    LET ids == st.reqs[r].ids
        st1 == [st EXCEPT !.reqs[r].instances = Fill(Len(ids), Undef),
                          !.reqs[r].started = TRUE]
    IN CreateLoop([st1 EXCEPT !.reqs[r].count = Len(ids)], r, Len(ids))

createInstances(st, r) ==
    LET ids == st.reqs[r].ids
        st1 == [st EXCEPT !.reqs[r].instances = Fill(Len(ids), Undef),
                          !.reqs[r].started = TRUE]
    IN IF Len(ids) = 0 THEN FireCb(st1, r)
       ELSE CreateLoop([st1 EXCEPT !.reqs[r].count = Len(ids)], r, Len(ids))

\* injectDeps (341-352) with injectPropDependencies (365-368) and
\* injectSetterDependencies (354-356) up to their getComponent calls
injectDeps(st, cb) ==
    LET component == st.comps[cb.comp]
        st0 == [st EXCEPT !.reqs[cb.req].gates[cb.index] =
                              [prop |-> FALSE, setter |-> FALSE],
                          !.reqs[cb.req].depReqs[cb.index] = @ + 2]
        st1 == getComponent(st0, cb.req \o <<cb.index, "prop">>,
                            IdsOf(component.propDeps),
                            Cont("prop", cb.req, cb.index, cb.comp, cb.inst))
    IN getComponent(st1, cb.req \o <<cb.index, "setter">>,
                    IF component.setterDeps.null THEN <<>>
                    ELSE component.setterDeps.v,
                    Cont("setter", cb.req, cb.index, cb.comp, cb.inst))

\* the callback loadComponentModules hands to the loader (284-294): bind
\* the creator of every pending component (module i, component j, both
\* counted down), then continue
RECURSIVE BindCreators(_, _, _, _)
BindCreators(st, call, i, j) ==
    IF i = 0 THEN st
    ELSE IF j = 0
    THEN BindCreators(st, call, i - 1,
                      IF i = 1 THEN 0 ELSE Len(call.map[call.modules[i - 1]]))
    ELSE LET c == call.map[call.modules[i]][j]
             st1 == IF ~IsFunction(st.comps[c].creator)
                    THEN [st EXCEPT !.comps[c] =
                             createCreator(@, ModV(call.modules[i]))]
                    ELSE st
         IN BindCreators(st1, call, i, j - 1)

loaderCallback(st, at) ==
    LET call == st.calls[at]
        n == Len(call.modules)
        st1 == BindCreators([st EXCEPT !.calls[at].done = TRUE], call, n,
                            IF n = 0 THEN 0 ELSE Len(call.map[call.modules[n]]))
    IN IF call.cont.kind = "createInstances"
       THEN createInstances(st1, call.cont.req)
       ELSE injectDeps(st1, call.cont)

(***************************************************************************)
(* The calls the user makes.  Constructors: F (its instances expose no     *)
(* setter) and G (setP, setQ); module "M" has the member function "m".     *)
(***************************************************************************)
IdA == <<"a">>
IdB == <<"b">>
Entry(id, config) == [id |-> id, config |-> config]

\* the maps a user passes to addComponent(map)
Maps ==
    { <<Entry(IdA, [creator |-> FnV("G"), scope |-> "singleton",
                    args |-> <<Ref(IdB)>>,
                    properties |-> <<[k |-> "p", v |-> Lit("x")]>>]),
        Entry(IdB, [creator |-> FnV("F")])>>,
      <<Entry(IdB, [creator |-> StrV("m"), module |-> "M", isFactory |-> TRUE]),
        Entry(IdA, [creator |-> StrV("m"), module |-> "M",
                    scope |-> "singleton"])>> }

\* the configs a user passes to addComponent(id, config)
Singles ==
    { Entry(IdA, [creator |-> FnV("F"), scope |-> "static", isFactory |-> TRUE,
                  properties |-> <<[k |-> "p", v |-> Ref(IdB)]>>]),
      Entry(IdA, [creator |-> FnV("G"), auto |-> TRUE,
                  properties |-> <<[k |-> "p", v |-> Ref(IdB)],
                                   [k |-> "r", v |-> Lit("y")]>>]),
      Entry(IdA, [creator |-> FnV("F"),
                  args |-> <<Lit("z"), Imp(IdB, [scope |-> "transient"])>>]),
      Entry(ObjectKey, [creator |-> FnV("F")]) }

\* the id lists a user passes to getComponent
Requests == { <<>>, <<IdA>>, <<IdA, IdB, IdA>> }

RECURSIVE AllocMap(_, _, _, _)
AllocMap(st, map, k, out) ==
    IF k > Len(map) THEN [st |-> st, map |-> out]
    ELSE LET al == AllocConfig(st, map[k].config)
         IN AllocMap(al.st, map, k + 1, Append(out, Entry(map[k].id, al.config)))

Init ==
    /\ components = <<>>
    /\ comps = <<>>
    /\ argsHeap = <<>>
    /\ propsHeap = <<>>
    /\ singletons = <<>>
    /\ reqs = <<>>
    /\ calls = <<>>
    /\ instOf = <<>>
    /\ invoked = <<>>
    /\ assigned = <<>>
    /\ setterArgs = <<>>
    /\ exc = "none"
    /\ nAdds = 0
    /\ nUser = 0
    /\ disposed = 0
    /\ disposeCalls = <<>>
    /\ lastCall = [op |-> "new", arg |-> <<>>]

\* no loader invocation is pending: the user registers components while the
\* container is idle
Idle == \A at \in DOMAIN calls : calls[at].done

\* the user's requests whose callback has fired
FiredUser == {u \in 1..nUser : reqs[<<u>>].fired > 0}

\* the number of ids the user has requested and not yet received
RECURSIVE InFlight(_)
InFlight(u) ==
    IF u = 0 THEN 0
    ELSE InFlight(u - 1)
         + (IF reqs[<<u>>].fired > 0 THEN 0 ELSE Len(reqs[<<u>>].ids))

\* ioc.addComponent(map)
AddComponentMap ==
    /\ nAdds < MaxAdds
    /\ Idle
    /\ \E map \in Maps :
          LET al == AllocMap(Cur, map, 1, <<>>)
          IN /\ Apply(addComponent(al.st, al.map))
             /\ lastCall' = [op |-> "addComponent(map)", arg |-> map]
    /\ nAdds' = nAdds + 1
    /\ UNCHANGED nUser

\* ioc.addComponent(id, config)
AddComponentId ==
    /\ nAdds < MaxAdds
    /\ Idle
    /\ \E e \in Singles :
          LET al == AllocMap(Cur, <<e>>, 1, <<>>)
          IN /\ Apply(addComponent(al.st, al.map))
             /\ lastCall' = [op |-> "addComponent(id)", arg |-> <<e>>]
    /\ nAdds' = nAdds + 1
    /\ UNCHANGED nUser

\* ioc.getComponent(ids, cb); a call that throws leaves no request behind
GetComponent ==
    /\ nUser < MaxUser
    /\ \E ids \in Requests :
          /\ InFlight(nUser) + Len(ids) <= MaxInFlight
          /\ LET st == getComponent(Cur, <<nUser + 1>>, ids, UserCb)
             IN IF st.exc # "none"
                THEN Apply(st) /\ nUser' = nUser
                ELSE /\ Apply([st EXCEPT !.reqs[<<nUser + 1>>].prior = FiredUser])
                     /\ nUser' = nUser + 1
          /\ lastCall' = [op |-> "getComponent", arg |-> ids]
    /\ UNCHANGED nAdds

\* the module loader completes one of its pending invocations
LoaderComplete ==
    /\ \E at \in DOMAIN calls :
          /\ ~calls[at].done
          /\ Apply(loaderCallback(Cur, at))
          /\ lastCall' = [op |-> "loader", arg |-> <<>>]
    /\ UNCHANGED <<nAdds, nUser>>

Next == AddComponentMap \/ AddComponentId \/ GetComponent \/ LoaderComplete

Spec == Init /\ [][Next]_vars

(***************************************************************************)
(* Progress: one registration, then requests, with a loader that completes *)
(* every invocation it receives.                                           *)
(***************************************************************************)
LiveRegister ==
    /\ nAdds < MaxLiveAdds
    /\ Idle
    /\ \E map \in Maps \cup {<<e>> : e \in Singles} :
          LET al == AllocMap(Cur, map, 1, <<>>)
          IN /\ Apply(addComponent(al.st, al.map))
             /\ lastCall' = [op |-> IF map \in Maps THEN "addComponent(map)"
                                    ELSE "addComponent(id)",
                             arg |-> map]
    /\ nAdds' = nAdds + 1
    /\ UNCHANGED nUser

LiveNext == LiveRegister \/ GetComponent \/ LoaderComplete

\* weak fairness of LoaderComplete, WF_vars(LoaderComplete), with its ENABLED
\* written out: a completion is possible exactly while an invocation is
\* pending (~Idle), and the steps that leave lastCall.op = "loader" are the
\* LoaderComplete steps
LoaderFair == []<>Idle \/ []<><<lastCall'.op = "loader">>_vars

LiveSpec == Init /\ [][LiveNext]_vars /\ LoaderFair

(***************************************************************************)
(* Registration on its own, with a larger choice of configs: imports of    *)
(* ids registered earlier, in the same map, not at all; several imports of *)
(* one base; an import whose override imports again; an owner id that      *)
(* contains the anonymous marker.                                          *)
(***************************************************************************)
IdC == <<"c">>
IdX == <<"x", ANONY_PREFIX, "y">>
NoOver == <<>>

\* addComponent(id, config)
RegSingles ==
    { Entry(IdB, [creator |-> FnV("F")]),
      Entry(IdC, [creator |-> FnV("G"), scope |-> "singleton"]),
      Entry(IdA, [creator |-> FnV("F"),
                  args |-> <<Lit("z"), Imp(IdB, [scope |-> "transient"])>>]),
      Entry(IdA, [creator |-> FnV("F"),
                  args |-> <<Imp(IdB, [scope |-> "singleton"]),
                             Imp(IdB, [scope |-> "transient"])>>]),
      Entry(IdA, [creator |-> FnV("G"),
                  properties |-> <<[k |-> "p", v |-> Imp(IdB, [scope |-> "singleton"])],
                                   [k |-> "q", v |-> Imp(IdB, [auto |-> TRUE])]>>]),
      Entry(IdX, [creator |-> FnV("F"), args |-> <<Imp(IdB, NoOver)>>]),
      Entry(IdA, [creator |-> FnV("F"),
                  args |-> <<Imp(IdB, [args |-> <<Imp(IdC, NoOver)>>])>>]) }

\* addComponent(map)
RegMaps ==
    { <<Entry(IdA, [creator |-> FnV("F"), args |-> <<Imp(IdB, NoOver)>>]),
        Entry(IdB, [creator |-> FnV("F")])>>,
      <<Entry(IdB, [creator |-> FnV("F"), args |-> <<Lit("z")>>]),
        Entry(IdA, [creator |-> FnV("G"),
                    properties |-> <<[k |-> "p", v |-> Imp(IdB, NoOver)]>>])>> }

RegisterMap ==
    /\ nAdds < MaxRegs
    /\ \E map \in RegMaps :
          LET al == AllocMap(Cur, map, 1, <<>>)
          IN /\ Apply(addComponent(al.st, al.map))
             /\ lastCall' = [op |-> "addComponent(map)", arg |-> map]
    /\ nAdds' = nAdds + 1
    /\ UNCHANGED nUser

RegisterId ==
    /\ nAdds < MaxRegs
    /\ \E e \in RegSingles :
          LET al == AllocMap(Cur, <<e>>, 1, <<>>)
          IN /\ Apply(addComponent(al.st, al.map))
             /\ lastCall' = [op |-> "addComponent(id)", arg |-> <<e>>]
    /\ nAdds' = nAdds + 1
    /\ UNCHANGED nUser

NextReg == RegisterMap \/ RegisterId

RegSpec == Init /\ [][NextReg]_vars

(***************************************************************************)
(* Disposal.  Instances of G expose a dispose() method, the other values   *)
(* do not.  The user disposes of the container while it is idle.           *)
(***************************************************************************)
ClassDisposes(name) == name = "G"
ExposesDispose(st, v) ==
    /\ v.k = "inst"
    /\ v.n \in DOMAIN st.instOf
    /\ ClassDisposes(st.comps[st.instOf[v.n]].creator.s)

\* Container.dispose (Container is not in src/; spec.md 4.5): invoke
\* dispose() on every cached singleton that exposes it, once per cache
\* entry, then release the scope store
ContainerDispose(st) ==
    LET entries(v) == {id \in DOMAIN st.singletons : st.singletons[id] = v}
        targets == {v \in Range(st.singletons) : ExposesDispose(st, v)}
    IN [st EXCEPT
          !.disposeCalls =
              [v \in DOMAIN st.disposeCalls \cup targets |->
                  Get(st.disposeCalls, v, 0)
                  + (IF v \in targets THEN Cardinality(entries(v)) ELSE 0)],
          !.singletons = <<>>]

\* dispose with a fault: the registry is kept
dispose_keepsRegistry(st) == ContainerDispose(st)

\* IoC.prototype.dispose (183-187)
dispose(st) ==
    [ContainerDispose(st) EXCEPT !.components = <<>>, !.disposed = @ + 1]

\* ioc.dispose()
Dispose ==
    /\ disposed < MaxDisposes
    /\ Idle
    /\ Apply(dispose(Cur))
    /\ lastCall' = [op |-> "dispose", arg |-> <<>>]
    /\ UNCHANGED <<nAdds, nUser>>

NextWithDispose == Next \/ Dispose

DisposeSpec == Init /\ [][NextWithDispose]_vars

(***************************************************************************)
(* Properties.  UserReq(u) is the user's u-th getComponent call.           *)
(***************************************************************************)
UserReq(u) == reqs[<<u>>]

RECURSIVE SumSeq(_)
SumSeq(s) == IF s = <<>> THEN 0 ELSE Head(s) + SumSeq(Tail(s))

\* v is the result the pipeline of index i of request r produced for ids[i]:
\* undefined for an unregistered id, the creator of a static component of
\* that id, the instance constructed for this very index, or the cached
\* instance of a singleton of that id
Produced(r, i, v) ==
    LET q == reqs[r]
    IN CASE q.kinds[i] = "undefined" -> v = Undef
         [] q.kinds[i] = "static" ->
              \E c \in DOMAIN comps : /\ comps[c].id = q.ids[i]
                                      /\ comps[c].scope = "static"
                                      /\ comps[c].creator = v
         [] q.kinds[i] = "construct" ->
              /\ v = Inst(Append(r, i))
              /\ v.n \in DOMAIN instOf
              /\ comps[instOf[v.n]].id = q.ids[i]
         [] q.kinds[i] = "cached" ->
              /\ v.k = "inst"
              /\ v.n \in DOMAIN instOf
              /\ comps[instOf[v.n]].id = q.ids[i]
              /\ comps[instOf[v.n]].scope = "singleton"
         [] OTHER -> FALSE

\* C1: whenever the callback of a getComponent request has been invoked, it
\* received one argument per requested id and its i-th argument is the
\* result produced for ids[i], whatever the order in which the loads and the
\* per-id pipelines completed.
C1_PositionsMatchIds ==
    \A r \in DOMAIN reqs :
        reqs[r].fired > 0 =>
            /\ Len(reqs[r].args) = Len(reqs[r].ids)
            /\ \A i \in DOMAIN reqs[r].ids : Produced(r, i, reqs[r].args[i])

\* C1 case: [a, b, a] was delivered with three constructed instances, and
\* the pipeline of position 3, started first, constructed its instance last
C1_Witness ==
    /\ nUser >= 1
    /\ UserReq(1).ids = <<IdA, IdB, IdA>>
    /\ UserReq(1).fired > 0
    /\ UserReq(1).args = <<Inst(<<1, 1>>), Inst(<<1, 2>>), Inst(<<1, 3>>)>>
    /\ IdA \in DOMAIN singletons
    /\ singletons[IdA] = Inst(<<1, 3>>)

\* the pipeline of index i of request r has completed: the component was
\* handed over and, unless it is undefined, both injections have finished
PipelineComplete(r, i) ==
    LET q == reqs[r]
    IN /\ q.kinds[i] # "none"
       /\ q.kinds[i] # "undefined" =>
            /\ q.gates[i].prop /\ q.gates[i].setter
            /\ r \o <<i, "prop">> \in DOMAIN reqs
            /\ reqs[r \o <<i, "prop">>].fired = 1
            /\ r \o <<i, "setter">> \in DOMAIN reqs
            /\ reqs[r \o <<i, "setter">>].fired = 1

\* C2: for every getComponent request with at least one id, the callback is
\* invoked at most once, exactly when every per-id pipeline has reported
\* completion, no pipeline reports before its construction and injection
\* have finished, and the countdown is decremented exactly once per id.
C2_CallbackOnceAfterAll ==
    \A r \in DOMAIN reqs :
        LET q == reqs[r]
        IN Len(q.ids) >= 1 =>
             /\ q.fired <= 1
             /\ \A i \in DOMAIN q.ids : q.dones[i] <= 1
             /\ \A i \in DOMAIN q.ids : q.dones[i] = 1 => PipelineComplete(r, i)
             /\ q.started => q.count = Len(q.ids) - SumSeq(q.dones)
             /\ q.fired = 1 <=> (q.started /\ \A i \in DOMAIN q.ids : q.dones[i] = 1)

\* C2 case: a request of three ids was delivered and properties were
\* injected into the instance of its first id
C2_Witness ==
    /\ nUser >= 1
    /\ Len(UserReq(1).ids) = 3
    /\ UserReq(1).fired = 1
    /\ UserReq(1).count = 0
    /\ UserReq(1).setProps[1] > 0

\* C3: two getComponent calls, the second issued after the callback of the
\* first fired, that deliver instances of the same component for the same id
\* deliver the identical instance if the component is a singleton and
\* distinct instances if it is transient.
C3_ScopeIdentity ==
    \A u1 \in 1..nUser : \A u2 \in 1..nUser :
        (u1 \in UserReq(u2).prior /\ UserReq(u2).fired > 0) =>
            \A i \in DOMAIN UserReq(u1).ids : \A j \in DOMAIN UserReq(u2).ids :
                LET v1 == UserReq(u1).args[i]
                    v2 == UserReq(u2).args[j]
                IN (/\ UserReq(u1).ids[i] = UserReq(u2).ids[j]
                    /\ v1.k = "inst" /\ v2.k = "inst"
                    /\ instOf[v1.n] = instOf[v2.n]) =>
                       IF comps[instOf[v1.n]].scope = "singleton"
                       THEN v1 = v2
                       ELSE v1 # v2

\* C4: the creator of a singleton component is invoked at most once.
C4_SingletonCreatedOnce ==
    \A c \in DOMAIN comps : comps[c].scope = "singleton" => invoked[c] <= 1

\* C5: a request served from the singleton cache runs no injection on the
\* cached instance: no setProperty call and no dependency request.
C5_CachedNotReinjected ==
    \A r \in DOMAIN reqs : \A i \in DOMAIN reqs[r].ids :
        reqs[r].kinds[i] = "cached" =>
            reqs[r].setProps[i] = 0 /\ reqs[r].depReqs[i] = 0

\* the objects some property was set on, by assignment or through a setter
Modified == {k[1] : k \in DOMAIN assigned} \cup {k[1] : k \in DOMAIN setterArgs}

\* C6: what a request delivers for a static component is the creator value
\* of that component itself, no property has been set on that value, and
\* the creator of a static component is never invoked.
C6_StaticCreatorUntouched ==
    /\ \A c \in DOMAIN comps : comps[c].scope = "static" => invoked[c] = 0
    /\ \A r \in DOMAIN reqs : \A i \in DOMAIN reqs[r].ids :
           (reqs[r].fired > 0 /\ reqs[r].kinds[i] = "static") =>
               /\ Produced(r, i, reqs[r].args[i])
               /\ reqs[r].args[i] \notin Modified

C8_UnregisteredIdTolerated ==
    /\ exc \in {"none", "import"}
    /\ \A r \in DOMAIN reqs : \A i \in DOMAIN reqs[r].ids :
           LET q == reqs[r]
           IN q.kinds[i] = "undefined" =>
                /\ q.instances[i] = Undef
                /\ q.dones[i] = 1
                /\ q.fired > 0 => q.args[i] = Undef
                /\ \A j \in DOMAIN q.ids : q.kinds[j] # "none"
                /\ \A j \in DOMAIN q.ids : q.dones[j] = 1 => PipelineComplete(r, j)
                /\ q.fired = 1 <=> \A j \in DOMAIN q.ids : q.dones[j] = 1

\* C8 case: [a, b, a] with b unregistered was delivered: undefined in the
\* middle, a constructed instance of a at both ends
C8_Witness ==
    \E u \in 1..nUser :
        /\ UserReq(u).ids = <<IdA, IdB, IdA>>
        /\ UserReq(u).kinds = <<"construct", "undefined", "construct">>
        /\ UserReq(u).fired = 1
        /\ UserReq(u).args[2] = Undef
        /\ UserReq(u).args[1].k = "inst"
        /\ UserReq(u).args[3].k = "inst"

\* the loader invocations made on behalf of the user's u-th call itself
LoadsOf(u) == {at \in DOMAIN calls : at[1] = <<u>>}

\* C9 as stated: getComponent([], cb) invokes cb with zero arguments and
\* the module loader is not invoked.
C9_EmptyWithoutLoader ==
    \A u \in 1..nUser :
        UserReq(u).ids = <<>> =>
            /\ UserReq(u).fired = 1
            /\ UserReq(u).args = <<>>
            /\ LoadsOf(u) = {}

\* C9 amended: getComponent([], cb) invokes the module loader once, with an
\* empty list of module names, and cb is invoked once with zero arguments
\* when that invocation completes.
C9_EmptyLoadsNothing ==
    \A u \in 1..nUser :
        UserReq(u).ids = <<>> =>
            /\ LoadsOf(u) = {<<<<u>>, 0>>}
            /\ calls[<<<<u>>, 0>>].modules = <<>>
            /\ UserReq(u).fired = (IF calls[<<<<u>>, 0>>].done THEN 1 ELSE 0)
            /\ UserReq(u).fired = 1 => UserReq(u).args = <<>>

\* C9 case: an empty request was delivered after its loader invocation
C9_Witness ==
    \E u \in 1..nUser :
        /\ UserReq(u).ids = <<>>
        /\ calls[<<<<u>>, 0>>].done
        /\ UserReq(u).fired = 1
        /\ UserReq(u).args = <<>>

\* the registered definition of id: the fields of its component and the
\* contents of its args array and properties object
DefinitionOf(id) ==
    LET c == comps[components[id]]
    IN [component |-> components[id],
        creator |-> c.creator, scope |-> c.scope, isFactory |-> c.isFactory,
        module |-> c.module, auto |-> c.auto,
        args |-> argsHeap[c.args], properties |-> propsHeap[c.properties],
        argDeps |-> c.argDeps, propDeps |-> c.propDeps]

\* C10: an addComponent call leaves every id that was registered before it
\* registered with the definition it had.
C10_ReAddKeepsDefinition ==
    [][nAdds' = nAdds + 1 =>
          \A id \in DOMAIN components :
              /\ id \in DOMAIN components'
              /\ DefinitionOf(id)' = DefinitionOf(id)]_vars

\* what one step of dispose() does: every cached singleton that exposes
\* dispose() has it invoked once more, no other instance has, and the
\* registry and the scope store are gone
DisposeStep ==
    /\ components' = <<>>
    /\ singletons' = <<>>
    /\ disposed' > 0
    /\ \A v \in Range(singletons) :
           ExposesDispose(Cur, v) =>
               /\ v \in DOMAIN disposeCalls'
               /\ disposeCalls'[v] = Get(disposeCalls, v, 0) + 1
    /\ \A v \in DOMAIN disposeCalls' :
           /\ disposeCalls'[v] <= 1
           /\ v \notin Range(singletons) => /\ v \in DOMAIN disposeCalls
                                            /\ disposeCalls'[v] = disposeCalls[v]

\* a call on the disposed container fails: it throws and changes neither
\* the registry nor the requests, and no loader invocation is made
FailedCall ==
    /\ exc' = "TypeError"
    /\ components' = components
    /\ reqs' = reqs
    /\ calls' = calls
    /\ instOf' = instOf

UserAdds == {"addComponent(map)", "addComponent(id)"}

\* C15 as stated: dispose() invokes dispose exactly once on every cached
\* singleton that exposes it and clears the registry, and every later
\* addComponent or getComponent call fails.
C15_EveryLaterCallFails ==
    [][/\ lastCall'.op = "dispose" => DisposeStep
       /\ (disposed > 0 /\ lastCall'.op \in UserAdds \cup {"getComponent"}) =>
              FailedCall]_vars

\* C15 amended: dispose() invokes dispose exactly once on every cached
\* singleton that exposes it and clears the registry, and every later
\* addComponent call that names a component and every later getComponent
\* call that names an id fails; getComponent([]) still invokes its
\* callback with zero arguments.
C15_LaterNamedCallsFail ==
    [][/\ lastCall'.op = "dispose" => DisposeStep
       /\ (disposed > 0 /\ lastCall'.op \in UserAdds /\ lastCall'.arg # <<>>) =>
              FailedCall
       /\ (disposed > 0 /\ lastCall'.op = "getComponent") =>
              IF lastCall'.arg # <<>> THEN FailedCall
              ELSE /\ exc' = "none"
                   /\ nUser' = nUser + 1
                   /\ reqs'[<<nUser'>>].ids = <<>>
                   /\ instOf' = instOf]_vars

\* C15 case: a cached singleton had its dispose() invoked, and a later
\* getComponent call naming an id failed
C15_Witness ==
    /\ disposed > 0
    /\ \E v \in DOMAIN disposeCalls : disposeCalls[v] = 1
    /\ lastCall.op = "getComponent"
    /\ lastCall.arg # <<>>
    /\ exc = "TypeError"

(***************************************************************************)
(* Properties of registration.                                             *)
(***************************************************************************)
\* the args entries and property values of a config as the user wrote it
ConfigEntries(config) ==
    (IF "args" \in DOMAIN config THEN Range(config.args) ELSE {})
    \cup (IF "properties" \in DOMAIN config
          THEN {config.properties[i].v : i \in DOMAIN config.properties}
          ELSE {})

\* the ids the entries of the map passed to addComponent import
TopImports(map) ==
    UNION {{e.id : e \in {x \in ConfigEntries(map[k].config) : hasImport(x)}} :
           k \in DOMAIN map}
BatchIds(map) == {map[k].id : k \in DOMAIN map}

\* the args entries and property values of the registered component id
EntriesOf(id) ==
    LET c == comps[components[id]]
    IN Range(argsHeap[c.args])
       \cup {propsHeap[c.properties][i].v : i \in DOMAIN propsHeap[c.properties]}
RemainingImports(id) == {e \in EntriesOf(id) : hasImport(e)}
RefIds(id) == {e.id : e \in {x \in EntriesOf(id) : hasReference(x)}}

\* the ids this step registered with a new component
Fresh == {id \in DOMAIN components' : components'[id] > Len(comps)}

\* C11: addComponent throws if and only if a component it registers carries
\* an $import of an id without definition at expansion time: it throws when
\* an entry of the call imports an id that is neither registered nor in the
\* same map; when it throws, a component it registered still carries an
\* $import of an unregistered id; when it returns, no component it
\* registered carries an $import any more.
C11_ThrowsIffImportMissing ==
    [][(lastCall'.op \in UserAdds /\ disposed = 0) =>
          LET map == lastCall'.arg
              known == DOMAIN components \cup BatchIds(map)
          IN /\ exc' \in {"none", "import"}
             /\ (/\ ObjectKey \notin DOMAIN components
                 /\ \E i \in TopImports(map) : i \notin known) =>
                    exc' = "import"
             /\ exc' = "import" =>
                    \E id \in Fresh : \E e \in RemainingImports(id)' :
                        e.id \notin DOMAIN components'
             /\ exc' = "none" =>
                    \A id \in Fresh : RemainingImports(id)' = {}]_vars

\* C11 case: the first addComponent call registered a map in which one
\* entry imports another, and returned with the anonymous component in place
C11_Witness ==
    /\ nAdds = 1
    /\ lastCall.op = "addComponent(map)"
    /\ TopImports(lastCall.arg) # {}
    /\ exc = "none"
    /\ \E id \in DOMAIN components : id[1] = ANONY_PREFIX

\* C12: after an addComponent call that returned normally, no registered
\* component carries an $import; every id in a component's anonyDeps is
\* registered and referenced by a $ref of that component, every $ref of a
\* component to a synthesized id is listed in its anonyDeps, and its
\* argDeps and propDeps are those of the expanded args and properties.
C12_ImportsExpanded ==
    (exc = "none" /\ lastCall.op \in UserAdds) =>
        \A id \in DOMAIN components :
            LET c == comps[components[id]]
            IN /\ RemainingImports(id) = {}
               /\ ~c.anonyDeps.null
               /\ \A i \in DOMAIN c.anonyDeps.v :
                      /\ c.anonyDeps.v[i] \in DOMAIN components
                      /\ c.anonyDeps.v[i] \in RefIds(id)
               /\ \A r \in RefIds(id) :
                      Contains(r, ANONY_PREFIX) => r \in Range(c.anonyDeps.v)
               /\ c.argDeps = Some(getDepsFromArgs(argsHeap[c.args]))
               /\ c.propDeps = Some(getDepsFromProperties(propsHeap[c.properties]))

\* the ids the user chooses
UserIds == {IdA, IdB, IdC, IdX, ObjectKey}

\* the ids synthesized for anonymous components
Synthesized ==
    UNION {Range(comps[c].anonyDeps.v) : c \in DOMAIN comps}

\* C13: every synthesized id begins with the anonymous marker, holds it
\* once, and is no id of the user.
C13_SynthesizedIdsMarked ==
    \A id \in Synthesized :
        /\ id[1] = ANONY_PREFIX
        /\ Cardinality({j \in DOMAIN id : id[j] = ANONY_PREFIX}) = 1
        /\ id \notin UserIds

\* C19: the $import occurrences of one component yield pairwise different
\* synthesized ids.
C19_OccurrencesDistinct ==
    \A c \in DOMAIN comps :
        \A i \in DOMAIN comps[c].anonyDeps.v :
            \A j \in DOMAIN comps[c].anonyDeps.v :
                i # j => comps[c].anonyDeps.v[i] # comps[c].anonyDeps.v[j]

(***************************************************************************)
(* Properties of loading and injection.                                    *)
(***************************************************************************)
NoDuplicate(s) == \A i \in DOMAIN s : \A j \in DOMAIN s : i # j => s[i] # s[j]

\* C14: the name list of every loader invocation holds no name twice and
\* names exactly the modules of its pending components; the load pass of a
\* request is one invocation, which holds every requested component whose
\* module is not loaded yet under the name of its module.
C14_ModuleNamedOnce ==
    /\ \A at \in DOMAIN calls :
          /\ NoDuplicate(calls[at].modules)
          /\ Range(calls[at].modules) = DOMAIN calls[at].map
          /\ \A m \in DOMAIN calls[at].map :
                \A j \in DOMAIN calls[at].map[m] :
                    comps[calls[at].map[m][j]].module = m
    /\ \A r \in DOMAIN reqs :
          /\ <<r, 0>> \in DOMAIN calls
          /\ ~calls[<<r, 0>>].done =>
                \A i \in DOMAIN reqs[r].ids :
                    LET c == Get(components, reqs[r].ids[i], 0)
                    IN (c # 0 /\ NeedsLoad(Cur, c)) =>
                          /\ comps[c].module \in DOMAIN calls[<<r, 0>>].map
                          /\ c \in Range(calls[<<r, 0>>].map[comps[c].module])

\* C14 case: a and b, both members of the module M that is not loaded, are
\* requested together and the pending invocation names M
C14_Witness ==
    \E u \in 1..nUser :
        /\ reqs[<<u>>].ids = <<IdA, IdB, IdA>>
        /\ ~calls[<<<<u>>, 0>>].done
        /\ calls[<<<<u>>, 0>>].modules = <<"M">>
        /\ {components[IdA], components[IdB]}
              \subseteq Range(calls[<<<<u>>, 0>>].map["M"])

\* the requests injectDeps makes for index i of request r
PropReq(r, i) == r \o <<i, "prop">>
SetterReq(r, i) == r \o <<i, "setter">>
ArgsReq(r, i) == r \o <<i, "args">>

\* C16: for every instance handed to injectDeps both injections are started
\* together, each signals at most once, and the continuation of the instance
\* has run once if both have signalled and not at all otherwise.
C16_GateOpensOnBoth ==
    \A r \in DOMAIN reqs :
        \A i \in DOMAIN reqs[r].ids :
            LET q == reqs[r]
                injecting == PropReq(r, i) \in DOMAIN reqs
            IN /\ injecting <=> SetterReq(r, i) \in DOMAIN reqs
               /\ (~injecting /\ q.kinds[i] # "undefined") => q.dones[i] = 0
               /\ injecting =>
                    /\ reqs[PropReq(r, i)].fired <= 1
                    /\ reqs[SetterReq(r, i)].fired <= 1
                    /\ q.gates[i].prop <=> reqs[PropReq(r, i)].fired = 1
                    /\ q.gates[i].setter <=> reqs[SetterReq(r, i)].fired = 1
                    /\ q.dones[i] =
                          (IF q.gates[i].prop /\ q.gates[i].setter THEN 1 ELSE 0)

\* C16 case: in one request the continuation of one instance has run after
\* both signals, while for another instance the setter injection, which
\* injectDeps starts last, has signalled first and the continuation waits
C16_Witness ==
    \E r \in DOMAIN reqs :
        \E i \in DOMAIN reqs[r].ids : \E j \in DOMAIN reqs[r].ids :
            /\ PropReq(r, i) \in DOMAIN reqs
            /\ reqs[r].gates[i].prop /\ reqs[r].gates[i].setter
            /\ reqs[r].dones[i] = 1
            /\ PropReq(r, j) \in DOMAIN reqs
            /\ reqs[r].gates[j].setter /\ ~reqs[r].gates[j].prop
            /\ reqs[r].dones[j] = 0

\* C17: within a request, for every index: the creator has only been
\* invoked once the request's module load and the request for the arg
\* dependencies were complete; the load for the property and setter
\* dependencies has only been started once the instance was there; a
\* property has only been set once that load was complete; and the callback
\* has only fired once every instance had all its declared properties set
\* and both injections finished.
C17_PhasesInOrder ==
    \A r \in DOMAIN reqs :
        \A i \in DOMAIN reqs[r].ids :
            LET q == reqs[r]
                n == Append(r, i)
            IN /\ n \in DOMAIN instOf =>
                    /\ calls[<<r, 0>>].done
                    /\ q.kinds[i] = "construct"
                    /\ ArgsReq(r, i) \in DOMAIN reqs
                    /\ calls[<<ArgsReq(r, i), 0>>].done
                    /\ reqs[ArgsReq(r, i)].fired = 1
               /\ <<r, i>> \in DOMAIN calls =>
                    /\ q.instances[i] # Undef
                    /\ q.kinds[i] = "construct" => n \in DOMAIN instOf
               /\ PropReq(r, i) \in DOMAIN reqs =>
                    (<<r, i>> \in DOMAIN calls /\ calls[<<r, i>>].done)
               /\ q.setProps[i] > 0 =>
                    (<<r, i>> \in DOMAIN calls /\ calls[<<r, i>>].done)
               /\ (q.fired > 0 /\ q.kinds[i] # "undefined") =>
                    /\ <<r, i>> \in DOMAIN calls
                    /\ calls[<<r, i>>].done
                    /\ reqs[PropReq(r, i)].fired = 1
                    /\ reqs[SetterReq(r, i)].fired = 1
                    /\ q.setProps[i] >=
                          Len(propsHeap[comps[calls[<<r, i>>].cont.comp].properties])

\* C17 case: a request for a constructed component with a declared property
\* went through all its phases and delivered
C17_Witness ==
    \E u \in 1..nUser :
        /\ reqs[<<u>>].fired = 1
        /\ reqs[<<u>>].ids = <<IdA>>
        /\ <<u, 1>> \in DOMAIN instOf
        /\ calls[<<<<u>>, 1>>].done
        /\ reqs[<<u>>].setProps[1] > 0

\* the property requests whose callback runs in this step
PropFiring ==
    {q \in DOMAIN reqs : /\ reqs[q].cb.kind = "prop"
                         /\ reqs[q].fired = 0
                         /\ reqs'[q].fired = 1}

\* key k of instance inst holds value: through the setter if the instance
\* has one for k, as a field otherwise
AppliedTo(inst, k, value) ==
    IF \E i \in DOMAIN SettersOf(Cur, inst) : SettersOf(Cur, inst)[i] = k
    THEN <<inst, k>> \in DOMAIN setterArgs /\ setterArgs[<<inst, k>>] = value
    ELSE <<inst, k>> \in DOMAIN assigned /\ assigned[<<inst, k>>] = value

\* the callback of the property request q has applied every declared
\* property: for {$ref: r} the value delivered for r, which is what is
\* registered under r produced, otherwise the declared literal
PropsApplied(q) ==
    LET cb == reqs[q].cb
        props == propsHeap[comps[cb.comp].properties]
    IN /\ reqs[cb.req].setProps[cb.index] >= Len(props)
       /\ \A k \in DOMAIN props :
             IF hasReference(props[k].v)
             THEN \E j \in DOMAIN reqs[q].ids :
                     /\ reqs[q].ids[j] = props[k].v.id
                     /\ Produced(q, j, reqs[q].args[j])
                     /\ AppliedTo(cb.inst, props[k].k, reqs[q].args[j])
             ELSE AppliedTo(cb.inst, props[k].k, props[k].v.v)

\* the injection of every instance whose continuation has run had its
\* property request delivered
InjectedAfterProps ==
    \A r \in DOMAIN reqs : \A i \in DOMAIN reqs[r].ids :
        (reqs[r].dones[i] = 1 /\ reqs[r].kinds[i] # "undefined") =>
            /\ PropReq(r, i) \in DOMAIN reqs
            /\ reqs[PropReq(r, i)].fired = 1

AllDelivered == \A r \in DOMAIN reqs : reqs[r].fired >= 1

\* C20: when the loader completes every invocation, a state in which some
\* request, of the user or nested, has not invoked its callback leads to
\* one in which every request has; and a request that has not invoked its
\* callback always has a loader invocation that has not completed.
C20_RequestsDeliver ==
    /\ (~AllDelivered) ~> AllDelivered
    /\ [](~AllDelivered => ~Idle)

\* C20 case: the user's requests, one of them for [a, b, a], were delivered
\* after all their loader invocations, nested ones included, completed
C20_Witness ==
    /\ nUser = MaxUser
    /\ reqs[<<1>>].ids = <<IdA, IdB, IdA>>
    /\ reqs[<<1>>].kinds = <<"construct", "construct", "construct">>
    /\ AllDelivered
    /\ Idle
    /\ Cardinality(DOMAIN calls) >= 8

====
